---- MODULE Spec2Model ----
(***************************************************************************)
(* Model of the browser-session layer of mcp_learn_py:                     *)
(*   src/tools/xiaohongshu_service.py  (retry_on_error, XiaohongshuService) *)
(*   src/utils/cookie_manager.py       (CookieManager)                      *)
(*   src/utils/environment.py          (EnvironmentDetector)                *)
(* The Service runs on a single-threaded event loop; each public call is   *)
(* modelled as a chain of frames (wait_for_login -> retry wrapper ->       *)
(* check_login_status -> _safe_navigate) that advance one loop iteration   *)
(* per step.  External calls (the driver, the file system) fail            *)
(* nondeterministically.                                                   *)
(***************************************************************************)
EXTENDS Integers, Sequences, FiniteSets, TLC

VARIABLES
    env,      \* EnvironmentDetector.get_environment_info(): has_gui, chrome_path
    requested,\* the XiaohongshuConfig as the caller built it
    config,   \* self.config after __init__
    svc,      \* the Service and the processes/files it owns
    now,      \* seconds since the current public call began
    nav,      \* frame of _safe_navigate
    chk,      \* frame of the body of check_login_status
    rty,      \* frame of retry_on_error.wrapper
    wfl,      \* frame of wait_for_login
    cm,       \* last CookieManager call (CookieSpec)
    qr,       \* frame of get_login_qrcode (QrSpec)
    co,       \* frames of two overlapping _safe_navigate calls (ConcurrentSpec)
    rec       \* last get_login_recommendations call (RecommendSpec)

vars == <<co, qr, env, requested, config, svc, now, nav, chk, rty, wfl, cm, rec>>

-----------------------------------------------------------------------------
(* Bounds of the model *)
MaxLaunch == 2        \* public calls start only while fewer processes were started
MaxAttempts == 3      \* largest max_retries handed to _safe_navigate by a caller
MaxRetries == 2       \* largest max_retries of a generic retry_on_error wrapper
MaxTimeout == 4       \* largest timeout_seconds handed to wait_for_login
MaxCookies == 2       \* longest cookie list handed to save_cookies
MaxStamp == 2         \* latest capture time

(* Program constants *)
NavDefaultRetries == 3   \* _safe_navigate(url, max_retries=3)
NavSettle == 2           \* asyncio.sleep(2) after driver.get
NavBackoff == 1          \* asyncio.sleep(1) before recovery
CheckMaxRetries == 2     \* @retry_on_error(max_retries=2, ...) on check_login_status
CheckDelay == 1          \* @retry_on_error(..., delay=1.0, ...)
CheckSettle == 3         \* asyncio.sleep(2) + asyncio.sleep(1) before the probe
PreloadSettle == 1       \* time.sleep(1) after the pre-load navigation
RefreshSettle == 2       \* asyncio.sleep(2) after driver.refresh()
RestartPause == 1        \* asyncio.sleep(1) after quitting in _reset_browser_state
check_interval == 2      \* wait_for_login: check every 2 seconds

None == "None"
NoDriver == 0

-----------------------------------------------------------------------------
(* Exception classes and isinstance *)
WebDriverException == "WebDriverException"
TimeoutException == "TimeoutException"
NoSuchElementException == "NoSuchElementException"
XiaohongshuError == "XiaohongshuError"
OtherException == "OSError"
BaseExc == "Exception"

ExceptionKinds ==
    {WebDriverException, TimeoutException, NoSuchElementException,
     XiaohongshuError, OtherException}

\* the classes an exception of class k is an instance of
Bases(k) ==
    CASE k = WebDriverException -> {WebDriverException, BaseExc}
      [] k = TimeoutException -> {TimeoutException, WebDriverException, BaseExc}
      [] k = NoSuchElementException -> {NoSuchElementException, WebDriverException, BaseExc}
      [] k = XiaohongshuError -> {XiaohongshuError, BaseExc}
      [] OTHER -> {k, BaseExc}

\* `except classes as e` catches an exception of class k
IsInstance(k, classes) == Bases(k) \cap classes # {}

-----------------------------------------------------------------------------
(* Cookie records and the cookie file *)
Absent == "<absent>"    \* the key is not in the dict
CookieDomain == ".xiaohongshu.com"
BundleDomain == "xiaohongshu.com"

Cookie(n, v, d) == [name |-> n, value |-> v, domain |-> d]

\* the records handed to save_cookies: two well-formed ones, one with an
\* empty name, one without a value key
CookieUniverse ==
    { Cookie("sid", "v1", CookieDomain), Cookie("web_session", "v2", Absent),
      Cookie("", "v1", Absent), Cookie("sid", Absent, Absent) }

RECURSIVE SeqsUpTo(_, _)
SeqsUpTo(S, n) ==
    IF n = 0 THEN {<<>>}
    ELSE LET shorter == SeqsUpTo(S, n - 1)
         IN shorter \cup { Append(q, x) : q \in {r \in shorter : Len(r) = n - 1}, x \in S }

\* json.dump of one dict: its members, in insertion order
Member(k, v) == IF v = Absent THEN <<>> ELSE << <<k, v>> >>
DumpCookie(c) == Member("name", c.name) \o Member("value", c.value) \o Member("domain", c.domain)

Punct(x) == << <<"punct", x>> >>
DocOpen == Punct("{\"cookies\":[")
DocMid == Punct("]")
DocClose == Punct("}")
StampStr(t) == <<"1000", "2000", "3000", "4000">>[t]   \* str(int(time.time() * 1000))

\* json.dump(cookies_data, f): the chunks written, in order
Dump(cookies, stamp, domain) ==
    <<DocOpen>> \o [i \in 1..Len(cookies) |-> DumpCookie(cookies[i])]
        \o <<DocMid, << <<"timestamp", StampStr(stamp)>> >>, << <<"domain", domain>> >>, DocClose>>

HasKey(tok, k) == \E i \in 1..Len(tok) : tok[i][1] = k
Get(tok, k) == IF HasKey(tok, k) THEN tok[CHOOSE i \in 1..Len(tok) : tok[i][1] = k][2] ELSE Absent
LoadCookie(tok) == Cookie(Get(tok, "name"), Get(tok, "value"), Get(tok, "domain"))

\* json.load(f): the document, or a JSONDecodeError
WellFormed(content) ==
    LET n == Len(content) IN
    /\ n >= 5
    /\ content[1] = DocOpen
    /\ content[n] = DocClose
    /\ content[n - 3] = DocMid
    /\ Len(content[n - 2]) = 1 /\ content[n - 2][1][1] = "timestamp"
    /\ Len(content[n - 1]) = 1 /\ content[n - 1][1][1] = "domain"
    /\ \A i \in 2..(n - 4) : ~HasKey(content[i], "punct")

Parse(content) ==
    LET n == Len(content) IN
    [cookies |-> [i \in 1..(n - 5) |-> LoadCookie(content[i + 1])],
     timestamp |-> content[n - 2][1][2],
     domain |-> content[n - 1][1][2]]

NoFile == [exists |-> FALSE, content |-> <<>>]
FileOf(content) == [exists |-> TRUE, content |-> content]

\* variant: only the name is required
ValidateCookieNameOnly(cookie) == cookie.name # Absent

\* CookieManager._validate_cookie
ValidateCookie(cookie) == cookie.name # Absent /\ cookie.value # Absent

RECURSIVE Filter(_)
Filter(cookies) ==
    IF cookies = <<>> THEN <<>>
    ELSE (IF ValidateCookie(Head(cookies)) THEN <<Head(cookies)>> ELSE <<>>) \o Filter(Tail(cookies))

NoCookies == [is_none |-> TRUE, list |-> <<>>]
Cookies(list) == [is_none |-> FALSE, list |-> list]

\* CookieManager.save_cookies; written = chunks that reach the file before a
\* failure: -1 when mkdir/open fails, Len(doc) when the write completes
SaveCookies(file, cookies, stamp, written) ==
    LET doc == Dump(cookies, stamp, BundleDomain) IN
    IF written < 0 THEN [file |-> file, ok |-> FALSE]
    ELSE [file |-> FileOf(SubSeq(doc, 1, written)), ok |-> written = Len(doc)]

\* CookieManager.load_cookies; readable = open()/read() succeed
LoadCookies(file, readable) ==
    IF ~file.exists THEN NoCookies
    ELSE IF ~readable \/ ~WellFormed(file.content) THEN NoCookies
    ELSE LET cookies == Parse(file.content).cookies
             valid_cookies == Filter(cookies)
         IN IF cookies = <<>> THEN NoCookies
            ELSE IF valid_cookies = <<>> THEN NoCookies ELSE Cookies(valid_cookies)

\* variant: get_cookie_info counts the records that pass _validate_cookie
CookieInfoCountsValid(file, readable) ==
    IF ~file.exists
    THEN [exists |-> FALSE, count |-> 0, timestamp |-> None, domain |-> None]
    ELSE IF ~readable \/ ~WellFormed(file.content)
    THEN [exists |-> TRUE, count |-> 0, timestamp |-> None, domain |-> None]
    ELSE LET data == Parse(file.content)
         IN [exists |-> TRUE, count |-> Len(Filter(data.cookies)),
             timestamp |-> data.timestamp, domain |-> data.domain]

\* CookieManager.get_cookie_info (without the path); readable = open()/read()
\* succeed
CookieInfo(file, readable) ==
    IF ~file.exists
    THEN [exists |-> FALSE, count |-> 0, timestamp |-> None, domain |-> None]
    ELSE IF ~readable \/ ~WellFormed(file.content)
    THEN [exists |-> TRUE, count |-> 0, timestamp |-> None, domain |-> None]
    ELSE LET data == Parse(file.content)
         IN [exists |-> TRUE, count |-> Len(data.cookies),
             timestamp |-> data.timestamp, domain |-> data.domain]

-----------------------------------------------------------------------------
(* The Service: construction, driver lifecycle *)
EnvPath == "/usr/bin/chromium"
CfgPath == "/opt/chrome/chrome"
PersistentDir == "xiaohongshu_chrome_persistent"

\* variant: the constructor leaves the requested headless flag alone
SetupEnvironmentConfigKeepsRequest(cfg, env_info) == cfg

\* XiaohongshuService.__init__ with _setup_environment_config
SetupEnvironmentConfig(cfg, env_info) ==
    IF ~env_info.has_gui THEN [cfg EXCEPT !.headless = TRUE] ELSE cfg

\* what the driver and the file system do during one launch
LaunchOutcomes ==
    { [chrome |-> "raises", post |-> "ok", readable |-> TRUE, preload |-> "ok",
       reject |-> {}],
      [chrome |-> "ok", post |-> "raises", readable |-> TRUE, preload |-> "ok",
       reject |-> {}] }
    \cup { [chrome |-> "ok", post |-> "ok", readable |-> r, preload |-> p,
             reject |-> {}] :
              r \in BOOLEAN, p \in {"ok", "raises"} }

\* launches that succeed, with the positions of the stored cookies whose
\* driver.add_cookie raises
InjectionOutcomes ==
    { [chrome |-> "ok", post |-> "ok", readable |-> r, preload |-> p, reject |-> x] :
        r \in BOOLEAN, p \in {"ok", "raises"}, x \in SUBSET (1..MaxCookies) }

\* driver.quit(): the process is gone once quit() was called on it
Quit(s) == [s EXCEPT !.live = @ \ {s.driver}]

\* `if 'domain' not in cookie: cookie['domain'] = '.xiaohongshu.com'`
WithDomain(cookie) ==
    IF cookie.domain = Absent THEN [cookie EXCEPT !.domain = CookieDomain] ELSE cookie

\* the positions of the list up to the first one the driver rejects
UpToFirstRejected(n, reject) ==
    {i \in 1..n : \A j \in 1..(i - 1) : j \notin reject}

\* variant: the first add_cookie that raises ends the injection
LoadCookiesToDriverStopsAtFailure(s, o) ==
    LET cookies == LoadCookies(s.file, o.readable)
        n == Cardinality(UpToFirstRejected(Len(cookies.list), o.reject))
    IN
    IF cookies.is_none
    THEN [s EXCEPT !.preloaded = FALSE, !.offered = <<>>, !.cookies_added = 0]
    ELSE IF o.preload = "raises"
    THEN [s EXCEPT !.preloaded = TRUE, !.offered = <<>>, !.cookies_added = 0]
    ELSE [s EXCEPT !.preloaded = TRUE,
                   !.offered = [i \in 1..n |-> WithDomain(cookies.list[i])],
                   !.cookies_added = Cardinality((1..n) \ o.reject)]

\* XiaohongshuService._load_cookies_to_driver: offered = the arguments of
\* driver.add_cookie, in call order
LoadCookiesToDriver(s, o) ==
    LET cookies == LoadCookies(s.file, o.readable) IN
    IF cookies.is_none
    THEN [s EXCEPT !.preloaded = FALSE, !.offered = <<>>, !.cookies_added = 0]
    ELSE IF o.preload = "raises"
    THEN [s EXCEPT !.preloaded = TRUE, !.offered = <<>>, !.cookies_added = 0]
    ELSE [s EXCEPT !.preloaded = TRUE,
                   !.offered = [i \in 1..Len(cookies.list) |-> WithDomain(cookies.list[i])],
                   !.cookies_added = Cardinality((1..Len(cookies.list)) \ o.reject)]

\* the time _load_cookies_to_driver sleeps
LoadCookiesSlept(s, o) ==
    IF ~LoadCookies(s.file, o.readable).is_none /\ o.preload = "ok" THEN PreloadSettle ELSE 0

\* variant: a failed pre-load navigation aborts the launch
SetupDriverAbortsOnPreload(s, o) ==
    IF env.chrome_path = None
    THEN [s |-> s, driver |-> NoDriver, exc |-> XiaohongshuError, chrome |-> 0, t |-> 0]
    ELSE LET s0 == [s EXCEPT !.temp_user_data_dir = PersistentDir, !.profile_dir = TRUE]
         IN IF o.chrome = "raises"
            THEN [s |-> s0, driver |-> NoDriver, exc |-> XiaohongshuError, chrome |-> 1,
                  t |-> 0]
            ELSE LET id == s0.launched + 1
                     chrome_path == IF config.browser_path # None THEN config.browser_path
                                    ELSE env.chrome_path
                     s1 == [s0 EXCEPT !.launched = id, !.live = @ \cup {id},
                                      !.launch_opts = @ \cup {[headless |-> config.headless,
                                                               binary |-> chrome_path]}]
                     s2 == LoadCookiesToDriver(s1, o)
                 IN IF o.post = "raises" \/ (s2.preloaded /\ o.preload = "raises")
                    THEN [s |-> s1, driver |-> NoDriver, exc |-> XiaohongshuError,
                          chrome |-> 1, t |-> 0]
                    ELSE [s |-> s2, driver |-> id, exc |-> None,
                          chrome |-> 1, t |-> LoadCookiesSlept(s1, o)]

\* XiaohongshuService._setup_driver: returns the new handle or raises;
\* chrome = 1 when webdriver.Chrome() was called, t = time slept
SetupDriver(s, o) ==
    IF env.chrome_path = None
    THEN [s |-> s, driver |-> NoDriver, exc |-> XiaohongshuError, chrome |-> 0, t |-> 0]
    ELSE LET s0 == [s EXCEPT !.temp_user_data_dir = PersistentDir, !.profile_dir = TRUE]
         IN IF o.chrome = "raises"
            THEN [s |-> s0, driver |-> NoDriver, exc |-> XiaohongshuError, chrome |-> 1,
                  t |-> 0]
            ELSE LET id == s0.launched + 1
                     chrome_path == IF config.browser_path # None THEN config.browser_path
                                    ELSE env.chrome_path
                     s1 == [s0 EXCEPT !.launched = id, !.live = @ \cup {id},
                                      !.launch_opts = @ \cup {[headless |-> config.headless,
                                                               binary |-> chrome_path]}]
                 IN IF o.post = "raises"
                    THEN [s |-> s1, driver |-> NoDriver, exc |-> XiaohongshuError,
                          chrome |-> 1, t |-> 0]
                    ELSE [s |-> LoadCookiesToDriver(s1, o), driver |-> id, exc |-> None,
                          chrome |-> 1, t |-> LoadCookiesSlept(s1, o)]

\* variant: _ensure_driver launches whether or not a handle exists
EnsureDriverAlwaysLaunches(s, o) ==
    LET r == SetupDriver(s, o) IN
    IF r.exc # None
    THEN [s |-> r.s, exc |-> XiaohongshuError, chrome |-> r.chrome, t |-> r.t]
    ELSE [s |-> [r.s EXCEPT !.driver = r.driver], exc |-> None, chrome |-> r.chrome,
          t |-> r.t]

\* XiaohongshuService._ensure_driver
EnsureDriver(s, o) ==
    IF s.driver # NoDriver THEN [s |-> s, exc |-> None, chrome |-> 0, t |-> 0]
    ELSE LET r == SetupDriver(s, o) IN
         IF r.exc # None
         THEN [s |-> r.s, exc |-> XiaohongshuError, chrome |-> r.chrome, t |-> r.t]
         ELSE [s |-> [r.s EXCEPT !.driver = r.driver], exc |-> None, chrome |-> r.chrome,
               t |-> r.t]

RefreshOutcomes == {"ok", WebDriverException, OtherException}

\* XiaohongshuService._reset_browser_state: the new state and the time slept
ResetBrowserState(s, refresh) ==
    IF s.driver = NoDriver THEN [s |-> s, slept |-> 0]
    ELSE IF refresh = "ok" THEN [s |-> s, slept |-> RefreshSettle]
    ELSE IF IsInstance(refresh, {WebDriverException})
         THEN [s |-> [Quit(s) EXCEPT !.driver = NoDriver], slept |-> RestartPause]
         ELSE [s |-> s, slept |-> 0]

\* what driver.quit() does when cleanup calls it
QuitOutcomes == {"ok", WebDriverException, OtherException}

\* variant: cleanup catches WebDriverException only
CleanupCatchesWebDriverOnly(s, q) ==
    LET quits == IF s.driver # NoDriver THEN 1 ELSE 0
        s1 == IF s.driver # NoDriver THEN [Quit(s) EXCEPT !.driver = NoDriver] ELSE s
        s2 == IF s1.temp_user_data_dir # None /\ s1.temp_user_data_dir # PersistentDir
              THEN [s1 EXCEPT !.profile_dir = FALSE] ELSE s1
    IN IF quits = 1 /\ q # "ok" /\ ~IsInstance(q, {WebDriverException})
       THEN [s |-> s1, exc |-> q, quits |-> quits]
       ELSE [s |-> [s2 EXCEPT !.temp_user_data_dir = None], exc |-> None, quits |-> quits]

\* XiaohongshuService.cleanup; q is what driver.quit() does; the result is
\* the new state, the exception that leaves cleanup, the calls of quit()
Cleanup(s, q) ==
    LET quits == IF s.driver # NoDriver THEN 1 ELSE 0
        s1 == IF s.driver # NoDriver THEN [Quit(s) EXCEPT !.driver = NoDriver] ELSE s
        s2 == IF s1.temp_user_data_dir # None /\ s1.temp_user_data_dir # PersistentDir
              THEN [s1 EXCEPT !.profile_dir = FALSE] ELSE s1
    IN IF quits = 1 /\ q # "ok" /\ ~IsInstance(q, {BaseExc})
       THEN [s |-> s1, exc |-> q, quits |-> quits]
       ELSE [s |-> [s2 EXCEPT !.temp_user_data_dir = None], exc |-> None, quits |-> quits]

-----------------------------------------------------------------------------
(* Frames *)
IdleNav == [pc |-> "idle", caller |-> "none", max_retries |-> 0, attempt |-> 0,
            outcomes |-> <<>>, launches |-> 0, gets |-> 0, driver0 |-> NoDriver,
            handle |-> NoDriver, result |-> "none"]
IdleChk == [pc |-> "idle", result |-> "none", exc |-> None, is_logged_in |-> FALSE,
            probe |-> "none", capture |-> "none"]
NoOutcome == [kind |-> "none", exc |-> None, value |-> FALSE]
IdleRty == [pc |-> "idle", op |-> "none", target |-> "none", caller |-> "none",
            max_retries |-> 0, delay |-> 0, exceptions |-> {}, attempt |-> 0,
            script |-> <<>>, out |-> NoOutcome, log |-> <<>>, slept |-> 0,
            result |-> "none", exc |-> None, value |-> FALSE]
IdleWfl == [pc |-> "idle", timeout_seconds |-> 0, start_time |-> 0, readings |-> <<>>,
            result |-> "none", returned_at |-> 0, polled_at |-> 0, read_at |-> 0]
IdleCm == [op |-> "none", prev |-> "none", input |-> <<>>, ok |-> FALSE,
           readable |-> FALSE, loaded |-> NoCookies, info |-> CookieInfo(NoFile, FALSE),
           described |-> NoFile]

IdleQr == [pc |-> "idle", timeout_seconds |-> 0, page |-> <<>>, searched |-> FALSE,
           status |-> "none", src |-> None, download |-> "none",
           response |-> [timeout |-> <<0, "s">>, is_logged_in |-> FALSE, img |-> None]]

\* two tool calls running on one event loop
Callers == {1, 2}
IdleCo == [pc |-> "idle", attempt |-> 0, handle |-> NoDriver, launched |-> FALSE,
           result |-> "none"]

\* no public call is in progress
Idle ==
    /\ nav.pc \in {"idle", "done"}
    /\ chk.pc \in {"idle", "done"}
    /\ rty.pc \in {"idle", "done"}
    /\ wfl.pc \in {"idle", "done"}
    /\ qr.pc \in {"idle", "done"}

CanStart == Idle /\ svc.launched < MaxLaunch

-----------------------------------------------------------------------------
(* _safe_navigate *)
GetOutcomes == {"ok", WebDriverException, OtherException}

StartNav(caller, max_retries) ==
    [IdleNav EXCEPT !.pc = "loop", !.caller = caller, !.max_retries = max_retries,
                    !.driver0 = svc.driver]

\* variant: gives up one attempt early (`attempt < max_retries - 2`)
SafeNavigateAttemptGivesUpEarly(f, s, o, g) ==
    LET e == EnsureDriver(s, o)
        failed == e.exc # None \/ g # "ok"
        got == IF e.exc = None THEN 1 ELSE 0
        f1 == [f EXCEPT !.launches = @ + e.chrome, !.gets = @ + got,
                        !.handle = e.s.driver,
                        !.outcomes = Append(@, IF e.exc # None THEN "launch_failed"
                                               ELSE IF g # "ok" THEN "get_failed"
                                               ELSE "ok")]
    IN IF ~failed
       THEN [f |-> [f1 EXCEPT !.pc = "done", !.result = "True"], s |-> e.s,
             t |-> e.t + NavSettle]
       ELSE IF f.attempt < f.max_retries - 2
            THEN [f |-> [f1 EXCEPT !.attempt = @ + 1],
                  s |-> IF e.s.driver # NoDriver
                        THEN [Quit(e.s) EXCEPT !.driver = NoDriver] ELSE e.s,
                  t |-> e.t + NavBackoff]
            ELSE [f |-> [f1 EXCEPT !.pc = "done", !.result = "raise"], s |-> e.s,
                  t |-> e.t]

\* variant: the recovery step keeps the failed driver
SafeNavigateAttemptKeepsHandle(f, s, o, g) ==
    LET e == EnsureDriver(s, o)
        failed == e.exc # None \/ g # "ok"
        got == IF e.exc = None THEN 1 ELSE 0
        f1 == [f EXCEPT !.launches = @ + e.chrome, !.gets = @ + got,
                        !.handle = e.s.driver,
                        !.outcomes = Append(@, IF e.exc # None THEN "launch_failed"
                                               ELSE IF g # "ok" THEN "get_failed"
                                               ELSE "ok")]
    IN IF ~failed
       THEN [f |-> [f1 EXCEPT !.pc = "done", !.result = "True"], s |-> e.s,
             t |-> e.t + NavSettle]
       ELSE IF f.attempt < f.max_retries - 1
            THEN [f |-> [f1 EXCEPT !.attempt = @ + 1], s |-> e.s, t |-> e.t + NavBackoff]
            ELSE [f |-> [f1 EXCEPT !.pc = "done", !.result = "raise"], s |-> e.s,
                  t |-> e.t]

\* one iteration of `for attempt in range(max_retries)`; f is the frame,
\* s the service, o the launch outcome, g what driver.get/current_url do
SafeNavigateAttempt(f, s, o, g) ==
    LET e == EnsureDriver(s, o)
        failed == e.exc # None \/ g # "ok"
        got == IF e.exc = None THEN 1 ELSE 0
        f1 == [f EXCEPT !.launches = @ + e.chrome, !.gets = @ + got,
                        !.handle = e.s.driver,
                        !.outcomes = Append(@, IF e.exc # None THEN "launch_failed"
                                               ELSE IF g # "ok" THEN "get_failed"
                                               ELSE "ok")]
    IN IF ~failed
       THEN [f |-> [f1 EXCEPT !.pc = "done", !.result = "True"], s |-> e.s,
             t |-> e.t + NavSettle]
       ELSE IF f.attempt < f.max_retries - 1
            THEN [f |-> [f1 EXCEPT !.attempt = @ + 1],
                  s |-> IF e.s.driver # NoDriver
                        THEN [Quit(e.s) EXCEPT !.driver = NoDriver] ELSE e.s,
                  t |-> e.t + NavBackoff]
            ELSE [f |-> [f1 EXCEPT !.pc = "done", !.result = "raise"], s |-> e.s,
                  t |-> e.t]

\* a caller invokes _safe_navigate(url, n) directly
CallSafeNavigate ==
    /\ CanStart
    /\ \E n \in 0..MaxAttempts : nav' = StartNav("client", n)
    /\ now' = 0
    /\ chk' = IdleChk /\ rty' = IdleRty /\ wfl' = IdleWfl
    /\ UNCHANGED <<co, qr, rec, env, requested, config, svc, cm>>

NavAttempt ==
    /\ nav.pc = "loop"
    /\ nav.attempt < nav.max_retries
    /\ \E o \in LaunchOutcomes, g \in GetOutcomes :
          \E r \in {SafeNavigateAttempt(nav, svc, o, g)} :
          /\ nav' = r.f
          /\ svc' = r.s
          /\ now' = now + r.t
    /\ UNCHANGED <<co, qr, rec, env, requested, config, chk, rty, wfl, cm>>

\* `return False` after the loop: reached only when range(max_retries) is empty
NavExit ==
    /\ nav.pc = "loop"
    /\ nav.attempt >= nav.max_retries
    /\ nav' = [nav EXCEPT !.pc = "done", !.result = "False"]
    /\ UNCHANGED <<co, qr, rec, env, requested, config, svc, now, chk, rty, wfl, cm>>

-----------------------------------------------------------------------------
(* direct calls of the lifecycle operations *)
CallEnsureDriver ==
    /\ CanStart
    /\ \E o \in LaunchOutcomes :
          \E e \in {EnsureDriver(svc, o)} :
          /\ svc' = e.s
          /\ now' = e.t
    /\ nav' = IdleNav /\ chk' = IdleChk /\ rty' = IdleRty /\ wfl' = IdleWfl
    /\ UNCHANGED <<co, qr, rec, env, requested, config, cm>>

CallReset ==
    /\ Idle
    /\ \E refresh \in RefreshOutcomes :
          \E r \in {ResetBrowserState(svc, refresh)} :
          /\ svc' = r.s
          /\ now' = r.slept
    /\ nav' = IdleNav /\ chk' = IdleChk /\ rty' = IdleRty /\ wfl' = IdleWfl
    /\ UNCHANGED <<co, qr, rec, env, requested, config, cm>>

CallCleanup ==
    /\ Idle
    /\ \E q \in QuitOutcomes : \E r \in {Cleanup(svc, q)} : svc' = r.s
    /\ now' = 0
    /\ nav' = IdleNav /\ chk' = IdleChk /\ rty' = IdleRty /\ wfl' = IdleWfl
    /\ UNCHANGED <<co, qr, rec, env, requested, config, cm>>

-----------------------------------------------------------------------------
(* check_login_status: the decorated body *)
ProbeOutcomes == {"displayed", "absent", NoSuchElementException, WebDriverException}

\* what driver.get_cookies() returns; the save of a captured jar fails at
\* open(), fails right after the truncation, or completes
DriverJars == { <<>>, <<Cookie("sid", "v1", CookieDomain)>> }

\* variant: an empty jar is saved too
SaveCookiesFromDriverSavesEmpty(s, got, jar, stamp, written) ==
    IF got # "ok" THEN s
    ELSE [s EXCEPT !.file = SaveCookies(s.file, jar, stamp, written).file]

\* XiaohongshuService._save_cookies_from_driver
SaveCookiesFromDriver(s, got, jar, stamp, written) ==
    IF got # "ok" THEN s
    ELSE IF jar = <<>> THEN s
    ELSE [s EXCEPT !.file = SaveCookies(s.file, jar, stamp, written).file]

\* what _save_cookies_from_driver did: get_cookies() raised, the jar was
\* empty, or the jar went to save_cookies, which returned ok
CaptureOutcome(got, jar, ok) ==
    IF got # "ok" THEN "read_failed"
    ELSE IF jar = <<>> THEN "no_cookies"
    ELSE IF ok THEN "saved" ELSE "save_failed"

\* variant: only an absent marker reads as not logged in
ProbeReadingUnlessAbsent(p) == p # "absent"

\* is_logged_in from the probe: `bool(elements and any(displayed))`, False on
\* NoSuchElementException, False in the `except Exception` around the probe
ProbeReading(p) == p = "displayed"

ChkReturn(f, logged_in) == [f EXCEPT !.pc = "done", !.result = "return", !.is_logged_in = logged_in]
ChkRaise(f, e) == [f EXCEPT !.pc = "done", !.result = "raise", !.exc = e]

\* the class of the exception that leaves check_login_status when
\* _safe_navigate raised: `except Exception as e: raise XiaohongshuError(...)`
CheckReraise(e) == XiaohongshuError

\* `await self._ensure_driver()`, then `await self._safe_navigate(self.login_url)`
ChkEnsure ==
    /\ chk.pc = "start"
    /\ \E o \in LaunchOutcomes :
          \E e \in {EnsureDriver(svc, o)} :
          /\ svc' = e.s
          /\ now' = now + e.t
          /\ IF e.exc # None
             THEN chk' = ChkRaise(chk, e.exc) /\ nav' = nav
             ELSE chk' = [chk EXCEPT !.pc = "nav"] /\ nav' = StartNav("chk", NavDefaultRetries)
    /\ UNCHANGED <<co, qr, rec, env, requested, config, rty, wfl, cm>>

\* the rest of the body, once _safe_navigate has returned or raised
ChkProbe ==
    /\ chk.pc = "nav"
    /\ nav.pc = "done"
    /\ nav.caller = "chk"
    /\ IF nav.result = "raise"
       THEN chk' = ChkRaise(chk, CheckReraise(XiaohongshuError)) /\ UNCHANGED <<svc, now>>
       ELSE IF nav.result = "False"
       THEN chk' = ChkReturn(chk, FALSE) /\ UNCHANGED <<svc, now>>
       ELSE /\ now' = now + CheckSettle
            /\ \E p \in ProbeOutcomes :
                  IF ProbeReading(p)
                  THEN \E got \in {"ok", WebDriverException}, jar \in DriverJars,
                          stamp \in {1, MaxStamp} :
                          \E written \in {-1, 0, Len(Dump(jar, stamp, BundleDomain))} :
                             /\ svc' = SaveCookiesFromDriver(svc, got, jar, stamp, written)
                             /\ chk' = [ChkReturn(chk, TRUE) EXCEPT
                                          !.probe = p,
                                          !.capture = CaptureOutcome(got, jar,
                                              SaveCookies(svc.file, jar, stamp, written).ok)]
                  ELSE chk' = [ChkReturn(chk, FALSE) EXCEPT !.probe = p] /\ svc' = svc
    /\ UNCHANGED <<co, qr, rec, env, requested, config, nav, rty, wfl, cm>>

-----------------------------------------------------------------------------
(* retry_on_error.wrapper *)
Event(ev, e, n) == [ev |-> ev, exc |-> e, n |-> n]

CheckExceptions == {WebDriverException, TimeoutException}

StartRty(op, target, caller, max_retries, delay, exceptions) ==
    [IdleRty EXCEPT !.pc = "call", !.op = op, !.target = target, !.caller = caller,
                    !.max_retries = max_retries, !.delay = delay,
                    !.exceptions = exceptions]

\* hasattr(args[0], '_reset_browser_state')
HasResetHook(target) == target \in {"service", "resettable"}

\* the outcome of the invocation the wrapper is awaiting
Outcome ==
    IF rty.op = "generic" THEN rty.out
    ELSE [kind |-> chk.result, exc |-> chk.exc, value |-> chk.is_logged_in]

\* variant: the wrapper sleeps `delay` before every retry
RetryAfterFailureConstantBackoff(f, out, hook, slept) ==
    LET backoff == f.delay
        resets == IF HasResetHook(f.target) THEN <<Event(hook, None, 0)>> ELSE <<>>
    IN [f EXCEPT !.pc = "call", !.attempt = @ + 1,
                 !.log = @ \o <<Event("raise", out.exc, 0)>> \o resets
                           \o <<Event("sleep", None, backoff)>>,
                 !.slept = @ + backoff]

\* variant: the retry skips the reset hook
RetryAfterFailureSkipsHook(f, out, hook, slept) ==
    LET backoff == f.delay * (f.attempt + 1)
    IN [f EXCEPT !.pc = "call", !.attempt = @ + 1,
                 !.log = @ \o <<Event("raise", out.exc, 0)>>
                           \o <<Event("sleep", None, backoff)>>,
                 !.slept = @ + backoff]

\* `except exceptions as e` with a retry left: reset hook, sleep, next attempt
\* f is the frame, hook what the hook call did, slept the time the hook slept
RetryAfterFailure(f, out, hook, slept) ==
    LET backoff == f.delay * (f.attempt + 1)
        resets == IF HasResetHook(f.target) THEN <<Event(hook, None, 0)>> ELSE <<>>
    IN [f EXCEPT !.pc = "call", !.attempt = @ + 1,
                 !.log = @ \o <<Event("raise", out.exc, 0)>> \o resets
                           \o <<Event("sleep", None, backoff)>>,
                 !.slept = @ + backoff]

\* variant: every exception is retried, whatever its class
WrapperStepRetriesAll(f, out, hook, slept) ==
    IF out.kind = "return"
    THEN [f EXCEPT !.pc = "done", !.result = "return", !.value = out.value,
                   !.log = Append(@, Event("return", None, 0))]
    ELSE IF f.attempt < f.max_retries
    THEN RetryAfterFailure(f, out, hook, slept)
    ELSE [f EXCEPT !.pc = "done", !.result = "raise", !.exc = out.exc,
                   !.log = Append(@, Event("raise", out.exc, 0))]

\* what the wrapper does with the outcome of one invocation
WrapperStep(f, out, hook, slept) ==
    IF out.kind = "return"
    THEN [f EXCEPT !.pc = "done", !.result = "return", !.value = out.value,
                   !.log = Append(@, Event("return", None, 0))]
    ELSE IF ~IsInstance(out.exc, f.exceptions)
    THEN [f EXCEPT !.pc = "done", !.result = "raise", !.exc = out.exc,
                   !.log = Append(@, Event("raise", out.exc, 0))]
    ELSE IF f.attempt < f.max_retries
    THEN RetryAfterFailure(f, out, hook, slept)
    ELSE [f EXCEPT !.pc = "done", !.result = "raise", !.exc = out.exc,
                   !.log = Append(@, Event("raise", out.exc, 0))]

\* the wrapper retries this outcome
WillRetry(f, out) ==
    out.kind = "raise" /\ IsInstance(out.exc, f.exceptions) /\ f.attempt < f.max_retries

\* a caller invokes check_login_status()
CallCheckLoginStatus ==
    /\ CanStart
    /\ rty' = StartRty("check_login_status", "service", "client", CheckMaxRetries,
                       CheckDelay, CheckExceptions)
    /\ now' = 0
    /\ nav' = IdleNav /\ chk' = IdleChk /\ wfl' = IdleWfl
    /\ UNCHANGED <<co, qr, rec, env, requested, config, svc, cm>>

\* `return await func(*args, **kwargs)` for func = check_login_status
RetryCall ==
    /\ rty.pc = "call"
    /\ rty.op = "check_login_status"
    /\ rty' = [rty EXCEPT !.pc = "await", !.log = Append(@, Event("call", None, 0))]
    /\ chk' = [IdleChk EXCEPT !.pc = "start"]
    /\ nav' = IdleNav
    /\ UNCHANGED <<co, qr, rec, env, requested, config, svc, now, wfl, cm>>

\* the invocation of check_login_status returned or raised
RetryHandle ==
    /\ rty.pc = "await"
    /\ rty.op = "check_login_status"
    /\ chk.pc = "done"
    /\ IF WillRetry(rty, Outcome)
       THEN \E refresh \in RefreshOutcomes :
               \E r \in {ResetBrowserState(svc, refresh)} :
               /\ svc' = r.s
               /\ rty' = WrapperStep(rty, Outcome, "reset", r.slept)
               /\ now' = now + r.slept + rty.delay * (rty.attempt + 1)
       ELSE /\ rty' = WrapperStep(rty, Outcome, "reset", 0)
            /\ UNCHANGED <<svc, now>>
    /\ UNCHANGED <<co, qr, rec, env, requested, config, nav, chk, wfl, cm>>

-----------------------------------------------------------------------------
(* wait_for_login *)
\* variant: the exception of a poll leaves wait_for_login
PollRaisedPropagates(f, e) == [f EXCEPT !.pc = "done", !.result = "raise"]

\* the handler of `except Exception` inside the polling loop: the exception
\* is logged and the loop goes on
PollRaised(f, e) == [f EXCEPT !.pc = "sleep", !.readings = Append(@, "raised")]

CallWaitForLogin ==
    /\ CanStart
    /\ \E t \in 0..MaxTimeout :
          wfl' = [IdleWfl EXCEPT !.pc = "loop", !.timeout_seconds = t, !.start_time = 0]
    /\ now' = 0
    /\ nav' = IdleNav /\ chk' = IdleChk /\ rty' = IdleRty
    /\ UNCHANGED <<co, qr, rec, env, requested, config, svc, cm>>

\* variant: the loop test lets a poll start when the timeout has just elapsed
WithinTimeoutInclusive(f, t) == t - f.start_time <= f.timeout_seconds

\* the loop test `time.time() - start_time < timeout_seconds` at time t
WithinTimeout(f, t) == t - f.start_time < f.timeout_seconds

\* `while time.time() - start_time < timeout_seconds`
WaitLoop ==
    /\ wfl.pc = "loop"
    /\ IF WithinTimeout(wfl, now)
       THEN /\ wfl' = [wfl EXCEPT !.pc = "poll", !.polled_at = now]
            /\ rty' = StartRty("check_login_status", "service", "wfl", CheckMaxRetries,
                               CheckDelay, CheckExceptions)
       ELSE /\ wfl' = [wfl EXCEPT !.pc = "done", !.result = "False", !.returned_at = now]
            /\ rty' = rty
    /\ UNCHANGED <<co, qr, rec, env, requested, config, svc, now, nav, chk, cm>>

\* `status = await self.check_login_status()` has returned or raised
WaitReading ==
    /\ wfl.pc = "poll"
    /\ rty.pc = "done"
    /\ rty.caller = "wfl"
    /\ wfl' = IF rty.result = "raise" THEN PollRaised([wfl EXCEPT !.read_at = now], rty.exc)
              ELSE IF rty.value
              THEN [wfl EXCEPT !.pc = "done", !.result = "True", !.returned_at = now,
                               !.read_at = now, !.readings = Append(@, "LoggedIn")]
              ELSE [wfl EXCEPT !.pc = "sleep", !.read_at = now,
                               !.readings = Append(@, "LoggedOut")]
    /\ nav' = IdleNav /\ chk' = IdleChk /\ rty' = IdleRty
    /\ UNCHANGED <<co, qr, rec, env, requested, config, svc, now, cm>>

\* `await asyncio.sleep(check_interval)`
WaitSleep ==
    /\ wfl.pc = "sleep"
    /\ wfl' = [wfl EXCEPT !.pc = "loop"]
    /\ now' = now + check_interval
    /\ UNCHANGED <<co, qr, rec, env, requested, config, svc, nav, chk, rty, cm>>

-----------------------------------------------------------------------------
(* _safe_navigate called from overlapping tool calls: the event loop switches
   coroutines at `await asyncio.sleep(...)`, and nothing serializes them *)
\* the except branches of _safe_navigate up to their await: back off before
\* the recovery, or raise on the last attempt
NavFailed(f) ==
    IF f.attempt < NavDefaultRetries - 1
    THEN [f EXCEPT !.pc = "backoff"]
    ELSE [f EXCEPT !.pc = "done", !.result = "raise"]

\* a tool call enters _safe_navigate(url)
CoCall(c) ==
    /\ co[c].pc = "idle"
    /\ co' = [co EXCEPT ![c] = [IdleCo EXCEPT !.pc = "loop"]]
    /\ UNCHANGED <<qr, rec, env, requested, config, svc, now, nav, chk, rty, wfl, cm>>

\* `await self._ensure_driver()` and `self.driver.get(url)`, up to
\* `await asyncio.sleep(2)` or to the `await asyncio.sleep(1)` of a handler
CoGet(c) ==
    /\ co[c].pc = "loop"
    /\ \E o \in LaunchOutcomes, g \in GetOutcomes :
          \E e \in {EnsureDriver(svc, o)} :
          /\ svc' = e.s
          /\ co' = [co EXCEPT ![c] =
                      IF e.exc # None \/ g # "ok"
                      THEN NavFailed([@ EXCEPT !.handle = e.s.driver,
                                               !.launched = e.exc = None /\ e.chrome = 1])
                      ELSE [@ EXCEPT !.pc = "settle", !.handle = e.s.driver,
                                     !.launched = e.chrome = 1]]
    /\ UNCHANGED <<qr, rec, env, requested, config, now, nav, chk, rty, wfl, cm>>

\* after the sleep: `final_url = self.driver.current_url`, which raises
\* AttributeError when self.driver is None by now, and `return True`
CoSettled(c) ==
    /\ co[c].pc = "settle"
    /\ co' = [co EXCEPT ![c] =
                IF svc.driver = NoDriver THEN NavFailed(@)
                ELSE [@ EXCEPT !.pc = "done", !.result = "True"]]
    /\ UNCHANGED <<qr, rec, env, requested, config, svc, now, nav, chk, rty, wfl, cm>>

\* after the sleep of a handler: `if self.driver:` quit it, `self.driver = None`,
\* and the next iteration
CoRecover(c) ==
    /\ co[c].pc = "backoff"
    /\ svc' = IF svc.driver # NoDriver THEN [Quit(svc) EXCEPT !.driver = NoDriver] ELSE svc
    /\ co' = [co EXCEPT ![c] = [@ EXCEPT !.pc = "loop", !.attempt = @ + 1]]
    /\ UNCHANGED <<qr, rec, env, requested, config, now, nav, chk, rty, wfl, cm>>

-----------------------------------------------------------------------------
(* get_login_qrcode *)
QrDefaultTimeout == 240   \* LoginQrcodeRequest.timeout_seconds default

\* the seven qr_selectors, by position
QrSelectors == 1..7

\* what one selector yields: no element, an element that is not displayed, a
\* displayed element whose src names no QR image, a displayed data: image, a
\* displayed image behind a URL, or an exception of the lookup
SelectorOutcomes ==
    {"empty", "hidden", "unrelated", "data", "url",
     NoSuchElementException, WebDriverException}

\* a displayed element whose src passes
\* `src and ("qr" in src.lower() or "data:image" in src.lower())`
IsQrImage(x) == x \in {"data", "url"}

\* login pages: what the first and the last selector yield, the selectors
\* between them matching nothing
QrPages ==
    { [i \in QrSelectors |-> IF i = 1 THEN a ELSE IF i = 7 THEN b ELSE "empty"] :
        a \in SelectorOutcomes, b \in SelectorOutcomes }

\* f"{n}s"
Seconds(n) == <<n, "s">>

LoginQrcodeResponse(timeout, is_logged_in, img) ==
    [timeout |-> timeout, is_logged_in |-> is_logged_in, img |-> img]

\* the response of every path that ends without a QR image
NoQrcode(is_logged_in) == LoginQrcodeResponse(Seconds(0), is_logged_in, None)

\* variant: the selectors are searched without stopping at the first image
RECURSIVE FindQrImageKeepsLast(_, _)
FindQrImageKeepsLast(page, i) ==
    IF i > Len(page) THEN [src |-> None, exc |-> None]
    ELSE IF page[i] = WebDriverException THEN [src |-> None, exc |-> WebDriverException]
    ELSE LET rest == FindQrImageKeepsLast(page, i + 1)
         IN IF rest.exc # None \/ rest.src # None THEN rest
            ELSE IF IsQrImage(page[i]) THEN [src |-> page[i], exc |-> None]
            ELSE rest

\* `for selector in qr_selectors` from selector i on: the src of the first
\* displayed QR image, or the exception that left the loop
RECURSIVE FindQrImage(_, _)
FindQrImage(page, i) ==
    IF i > Len(page) THEN [src |-> None, exc |-> None]
    ELSE IF page[i] = WebDriverException THEN [src |-> None, exc |-> WebDriverException]
    ELSE IF IsQrImage(page[i]) THEN [src |-> page[i], exc |-> None]
    ELSE FindQrImage(page, i + 1)

DownloadOutcomes == {"200", "404", OtherException}

\* the image payload: the part of a data: URL after the comma, or the
\* base64 of the downloaded bytes
EncodeQrImage(src, download) ==
    IF src = "data" THEN "<base64 of data url>"
    ELSE IF download = "200" THEN "<base64 of response>"
    ELSE None

\* a caller invokes get_login_qrcode(request): `_ensure_driver()`, then
\* `_safe_navigate(self.login_url)`
CallGetLoginQrcode ==
    /\ CanStart
    /\ \E t \in {QrDefaultTimeout, MaxTimeout}, o \in LaunchOutcomes :
          \E e \in {EnsureDriver(svc, o)} :
          /\ svc' = e.s
          /\ now' = e.t
          /\ IF e.exc # None
             THEN /\ qr' = [IdleQr EXCEPT !.pc = "done", !.status = "raise",
                                          !.timeout_seconds = t]
                  /\ nav' = IdleNav
             ELSE /\ qr' = [IdleQr EXCEPT !.pc = "nav", !.timeout_seconds = t]
                  /\ nav' = StartNav("qr", NavDefaultRetries)
    /\ chk' = IdleChk /\ rty' = IdleRty /\ wfl' = IdleWfl
    /\ UNCHANGED <<co, rec, env, requested, config, cm>>

\* _safe_navigate has returned or raised; `await self.check_login_status()`
QrNavigated ==
    /\ qr.pc = "nav"
    /\ nav.pc = "done"
    /\ nav.caller = "qr"
    /\ IF nav.result = "True"
       THEN /\ qr' = [qr EXCEPT !.pc = "status"]
            /\ rty' = StartRty("check_login_status", "service", "qr", CheckMaxRetries,
                               CheckDelay, CheckExceptions)
            /\ now' = now + NavSettle
       ELSE /\ qr' = [qr EXCEPT !.pc = "done", !.status = "no_page",
                                !.response = NoQrcode(FALSE)]
            /\ UNCHANGED <<rty, now>>
    /\ UNCHANGED <<co, rec, env, requested, config, svc, nav, chk, wfl, cm>>

\* check_login_status has returned or raised; the search for the QR image
QrSearch ==
    /\ qr.pc = "status"
    /\ rty.pc = "done"
    /\ rty.caller = "qr"
    /\ IF rty.result = "raise"
       THEN qr' = [qr EXCEPT !.pc = "done", !.status = "raised",
                             !.response = NoQrcode(FALSE)]
       ELSE IF rty.value
       THEN qr' = [qr EXCEPT !.pc = "done", !.status = "logged_in",
                             !.response = NoQrcode(TRUE)]
       ELSE \E page \in QrPages, d \in DownloadOutcomes :
               \E found \in {FindQrImage(page, 1)} :
               qr' = [qr EXCEPT
                        !.pc = "done", !.status = "logged_out", !.searched = TRUE,
                        !.page = page, !.src = found.src,
                        !.download = IF found.src = "url" THEN d ELSE "none",
                        !.response =
                            IF found.src # None
                            THEN LoginQrcodeResponse(Seconds(qr.timeout_seconds), FALSE,
                                                     EncodeQrImage(found.src, d))
                            ELSE NoQrcode(FALSE)]
    /\ nav' = IdleNav /\ chk' = IdleChk /\ rty' = IdleRty
    /\ UNCHANGED <<co, rec, env, requested, config, svc, now, wfl, cm>>

-----------------------------------------------------------------------------
(* EnvironmentDetector.get_login_recommendations *)
PackageManagers == {"apt-get", "yum", "pacman"}

\* the dicts get_environment_info can return on host e: chrome_works is
\* probed only when a binary was found; can_install_chrome and
\* package_manager come from two separate sweeps over PATH
EnvironmentInfos(e) ==
    { i \in [has_gui : {e.has_gui}, chrome_path : {e.chrome_path},
             chrome_works : BOOLEAN, can_install_chrome : BOOLEAN,
             package_manager : PackageManagers \cup {None}] :
        i.chrome_works => i.chrome_path # None }

\* get_install_instructions: a distribution entry or the generic one
InstallInstructions(pm) == IF pm \in {"apt-get", "yum", "dnf"} THEN pm ELSE "generic"

Recommendation(primary, alternatives, install, manual) ==
    [primary_method |-> primary, alternative_methods |-> alternatives,
     install_instructions |-> install, manual_instructions |-> manual]

\* variant: the third branch tests can_install_chrome only
LoginRecommendationsIgnoresPackageManager(i) ==
    IF i.chrome_works /\ i.has_gui
    THEN Recommendation("interactive_browser", <<"manual_cookie_import", "qr_code">>,
                        None, None)
    ELSE IF i.chrome_works /\ ~i.has_gui
    THEN Recommendation("qr_code", <<"manual_cookie_import", "remote_browser">>, None, None)
    ELSE IF i.can_install_chrome
    THEN Recommendation("install_chrome", <<"manual_cookie_import", "remote_browser">>,
                        InstallInstructions(i.package_manager), None)
    ELSE Recommendation("manual_cookie_import", <<"remote_browser">>, None, "manual")

\* the if/elif chain of get_login_recommendations on the dict i
LoginRecommendations(i) ==
    IF i.chrome_works /\ i.has_gui
    THEN Recommendation("interactive_browser", <<"manual_cookie_import", "qr_code">>,
                        None, None)
    ELSE IF i.chrome_works /\ ~i.has_gui
    THEN Recommendation("qr_code", <<"manual_cookie_import", "remote_browser">>, None, None)
    ELSE IF i.can_install_chrome /\ i.package_manager # None
    THEN Recommendation("install_chrome", <<"manual_cookie_import", "remote_browser">>,
                        InstallInstructions(i.package_manager), None)
    ELSE Recommendation("manual_cookie_import", <<"remote_browser">>, None, "manual")

\* before the first call
NoEnvironmentInfo ==
    [has_gui |-> FALSE, chrome_path |-> None, chrome_works |-> FALSE,
     can_install_chrome |-> FALSE, package_manager |-> None]
NoRecommendation ==
    [called |-> FALSE, env_info |-> NoEnvironmentInfo,
     result |-> Recommendation(None, <<>>, None, None),
     repeated |-> FALSE, previous |-> Recommendation(None, <<>>, None, None)]

\* a caller invokes get_login_recommendations(); previous is the result of
\* the call before, repeated tells that it saw the same dict
GetLoginRecommendations ==
    /\ \E i \in EnvironmentInfos(env) :
          rec' = [called |-> TRUE, env_info |-> i,
                  result |-> LoginRecommendations(i),
                  repeated |-> rec.called /\ rec.env_info = i,
                  previous |-> rec.result]
    /\ UNCHANGED <<co, qr, env, requested, config, svc, now, nav, chk, rty, wfl, cm>>

-----------------------------------------------------------------------------
StoredBundles ==
    { NoFile,
      FileOf(Dump(<<Cookie("sid", "v1", Absent)>>, 1, BundleDomain)) }

NewService ==
    [driver |-> NoDriver, live |-> {}, launched |-> 0,
     launch_opts |-> {}, temp_user_data_dir |-> None,
     profile_dir |-> FALSE, preloaded |-> FALSE, offered |-> <<>>, cookies_added |-> 0,
     file |-> NoFile]

Init ==
    /\ env \in [has_gui : BOOLEAN, chrome_path : {None, EnvPath}]
    /\ requested \in [headless : BOOLEAN, browser_path : {None, CfgPath}]
    /\ config = SetupEnvironmentConfig(requested, env)
    /\ \E f \in StoredBundles : svc = [NewService EXCEPT !.file = f]
    /\ now = 0
    /\ nav = IdleNav /\ chk = IdleChk /\ rty = IdleRty /\ wfl = IdleWfl
    /\ cm = IdleCm
    /\ rec = NoRecommendation
    /\ co = [c \in Callers |-> IdleCo]
    /\ qr = IdleQr

\* the lifecycle operations, called in any order
Next ==
    \/ CallEnsureDriver
    \/ CallSafeNavigate
    \/ NavAttempt
    \/ NavExit
    \/ CallReset
    \/ CallCleanup

Spec == Init /\ [][Next]_vars

\* the login operations on a Service built from the default XiaohongshuConfig
\* on a host without GUI
LoginInit ==
    /\ Init
    /\ ~env.has_gui
    /\ requested = [headless |-> TRUE, browser_path |-> None]

LoginNext ==
    \/ CallCheckLoginStatus
    \/ RetryCall
    \/ ChkEnsure
    \/ NavAttempt
    \/ ChkProbe
    \/ RetryHandle
    \/ CallWaitForLogin
    \/ WaitLoop
    \/ WaitReading
    \/ WaitSleep
    \/ CallCleanup

LoginSpec == LoginInit /\ [][LoginNext]_vars

\* get_login_qrcode on the same Service
QrNext ==
    \/ CallGetLoginQrcode
    \/ NavAttempt
    \/ QrNavigated
    \/ RetryCall
    \/ ChkEnsure
    \/ ChkProbe
    \/ RetryHandle
    \/ QrSearch

QrSpec == LoginInit /\ [][QrNext]_vars

\* two _safe_navigate calls interleaved on one Service
ConcurrentNext ==
    \E c \in Callers :
        \/ CoCall(c)
        \/ CoGet(c)
        \/ CoSettled(c)
        \/ CoRecover(c)

ConcurrentSpec == LoginInit /\ [][ConcurrentNext]_vars

-----------------------------------------------------------------------------
(* retry_on_error around an arbitrary coroutine *)
Returns(v) == [kind |-> "return", exc |-> None, value |-> v]
Raises(e) == [kind |-> "raise", exc |-> e, value |-> FALSE]

\* what one invocation of the wrapped coroutine can do
GenericOutcomes ==
    {Returns(TRUE), Raises(WebDriverException), Raises(TimeoutException),
     Raises(XiaohongshuError)}

\* the `exceptions` tuples of the decorator
ExceptionTuples == { {WebDriverException, TimeoutException}, {TimeoutException}, {BaseExc} }

\* args[0] has a _reset_browser_state attribute, or has none
Targets == {"resettable", "plain"}

\* a caller invokes a coroutine decorated with
\* retry_on_error(max_retries=m, delay=d, exceptions=x); script is what the
\* coroutine does on its successive invocations
CallGeneric ==
    /\ rty.pc = "idle"
    /\ \E m \in 0..MaxRetries, d \in {CheckDelay, 2}, x \in ExceptionTuples, t \in Targets :
          \E script \in [1..(m + 1) -> GenericOutcomes] :
             rty' = [StartRty("generic", t, "client", m, d, x) EXCEPT !.script = script]
    /\ UNCHANGED <<co, qr, rec, env, requested, config, svc, now, nav, chk, wfl, cm>>

\* `return await func(*args, **kwargs)`
RetryCallGeneric ==
    /\ rty.pc = "call"
    /\ rty.op = "generic"
    /\ rty' = [rty EXCEPT !.pc = "await", !.out = rty.script[rty.attempt + 1],
                          !.log = Append(@, Event("call", None, 0))]
    /\ UNCHANGED <<co, qr, rec, env, requested, config, svc, now, nav, chk, wfl, cm>>

\* the invocation returned or raised; the reset hook itself may raise
RetryHandleGeneric ==
    /\ rty.pc = "await"
    /\ rty.op = "generic"
    /\ \E hook \in {"reset", "reset_raised"} :
          rty' = WrapperStep(rty, Outcome, hook, 0)
    /\ now' = IF WillRetry(rty, Outcome) THEN now + rty.delay * (rty.attempt + 1) ELSE now
    /\ UNCHANGED <<co, qr, rec, env, requested, config, svc, nav, chk, wfl, cm>>

RetryInit ==
    /\ Init
    /\ env = [has_gui |-> FALSE, chrome_path |-> EnvPath]
    /\ requested = [headless |-> TRUE, browser_path |-> None]
    /\ svc.file = NoFile

RetryNext ==
    \/ CallGeneric
    \/ RetryCallGeneric
    \/ RetryHandleGeneric

RetrySpec == RetryInit /\ [][RetryNext]_vars

-----------------------------------------------------------------------------
(* CookieManager called directly (cookie importer, login script) *)
CookieLists == SeqsUpTo(CookieUniverse, MaxCookies)

\* save_cookies(cookies), over a file left by an earlier run or by a clear
CmSave ==
    /\ cm.op \in {"none", "clear"}
    /\ \E cookies \in CookieLists, stamp \in {1, MaxStamp} :
          \E written \in -1..Len(Dump(cookies, stamp, BundleDomain)) :
             \E r \in {SaveCookies(svc.file, cookies, stamp, written)} :
             /\ svc' = [svc EXCEPT !.file = r.file]
             /\ cm' = [IdleCm EXCEPT !.op = "save", !.prev = cm.op, !.input = cookies,
                                     !.ok = r.ok]
    /\ UNCHANGED <<co, qr, rec, env, requested, config, now, nav, chk, rty, wfl>>

\* load_cookies()
CmLoad ==
    /\ \E readable \in BOOLEAN :
          cm' = [cm EXCEPT !.op = "load", !.prev = cm.op, !.readable = readable,
                           !.loaded = LoadCookies(svc.file, readable)]
    /\ UNCHANGED <<co, qr, rec, env, requested, config, svc, now, nav, chk, rty, wfl>>

\* variant: clearing a missing file reports a failure
ClearCookiesFailsWhenMissing(file, unlinked) ==
    IF ~file.exists THEN [file |-> file, ok |-> FALSE]
    ELSE IF unlinked THEN [file |-> NoFile, ok |-> TRUE]
    ELSE [file |-> file, ok |-> FALSE]

\* CookieManager.clear_cookies; unlinked = the unlink succeeds
ClearCookies(file, unlinked) ==
    IF ~file.exists THEN [file |-> file, ok |-> TRUE]
    ELSE IF unlinked THEN [file |-> NoFile, ok |-> TRUE]
    ELSE [file |-> file, ok |-> FALSE]

\* clear_cookies()
CmClear ==
    /\ \E unlinked \in BOOLEAN :
          \E r \in {ClearCookies(svc.file, unlinked)} :
          /\ svc' = [svc EXCEPT !.file = r.file]
          /\ cm' = [IdleCm EXCEPT !.op = "clear", !.prev = cm.op, !.ok = r.ok]
    /\ UNCHANGED <<co, qr, rec, env, requested, config, now, nav, chk, rty, wfl>>

\* get_cookie_info(), after any other call
CmInfo ==
    /\ \E readable \in BOOLEAN :
          cm' = [IdleCm EXCEPT !.op = "info", !.prev = cm.op, !.ok = cm.ok,
                               !.readable = readable, !.described = svc.file,
                               !.info = CookieInfo(svc.file, readable)]
    /\ UNCHANGED <<co, qr, rec, env, requested, config, svc, now, nav, chk, rty, wfl>>

CookieInit ==
    /\ Init
    /\ env = [has_gui |-> FALSE, chrome_path |-> EnvPath]
    /\ requested = [headless |-> TRUE, browser_path |-> None]

CookieNext ==
    \/ CmSave
    \/ CmLoad
    \/ CmClear
    \/ CmInfo

CookieSpec == CookieInit /\ [][CookieNext]_vars

-----------------------------------------------------------------------------
(* session creation over every kind of cookie file *)
\* no file, a file cut off after its first chunk, and the bundles save_cookies
\* writes
SessionFiles ==
    {NoFile, FileOf(SubSeq(Dump(<<>>, 1, BundleDomain), 1, 1))}
    \cup { FileOf(Dump(cookies, 1, BundleDomain)) : cookies \in CookieLists }

\* a Service built from the default XiaohongshuConfig on a host without GUI
SessionInit ==
    /\ env \in [has_gui : {FALSE}, chrome_path : {None, EnvPath}]
    /\ requested = [headless |-> TRUE, browser_path |-> None]
    /\ config = SetupEnvironmentConfig(requested, env)
    /\ \E f \in SessionFiles : svc = [NewService EXCEPT !.file = f]
    /\ now = 0
    /\ nav = IdleNav /\ chk = IdleChk /\ rty = IdleRty /\ wfl = IdleWfl
    /\ cm = IdleCm
    /\ rec = NoRecommendation
    /\ co = [c \in Callers |-> IdleCo]
    /\ qr = IdleQr

\* _ensure_driver, with add_cookie failing for some of the stored cookies
CallEnsureSession ==
    /\ CanStart
    /\ \E o \in LaunchOutcomes \cup InjectionOutcomes :
          \E e \in {EnsureDriver(svc, o)} :
          /\ svc' = e.s
          /\ now' = e.t
    /\ nav' = IdleNav /\ chk' = IdleChk /\ rty' = IdleRty /\ wfl' = IdleWfl
    /\ UNCHANGED <<co, qr, rec, env, requested, config, cm>>

SessionNext ==
    \/ CallEnsureSession
    \/ CallCleanup

SessionSpec == SessionInit /\ [][SessionNext]_vars

-----------------------------------------------------------------------------
(* The boundary of the public operations: where a failure of the driver
   happens in an operation, and what reaches the caller *)
PublicOperations ==
    {"check_login_status", "get_login_qrcode", "wait_for_login", "cleanup",
     "publish_content", "list_feeds", "search_feeds", "get_feed_detail",
     "post_comment_to_feed", "user_profile"}

\* the operations under @retry_on_error(max_retries=2, ...,
\* exceptions=(WebDriverException, TimeoutException))
Decorated(op) == op \notin {"get_login_qrcode", "wait_for_login", "cleanup"}

\* the delay of the decorator
OperationDelay(op) == IF op = "publish_content" THEN 2 ELSE CheckDelay

\* the operations that `await self._ensure_driver()` before their try block
EnsuresFirst(op) == op \notin {"wait_for_login", "cleanup"}

\* the operations whose outermost handler returns a result instead of raising
ReturnsOnFailure(op) == op \in {"get_login_qrcode", "wait_for_login", "cleanup"}

\* what the driver can raise, and where: during the launch, at a driver call
\* guarded by an inner handler of the body, at a driver call that only the
\* outermost handler guards
DriverExceptions ==
    {WebDriverException, TimeoutException, NoSuchElementException, OtherException}
FailurePatterns ==
    {[stage |-> "none", raw |-> None]}
    \cup [stage : {"launch", "inner", "body"}, raw : DriverExceptions]

\* variant: the handlers at the boundary are `except WebDriverException`
CaughtWebDriverOnly(e) == IsInstance(e, {WebDriverException})

\* `except Exception as e` catches e
Caught(e) == IsInstance(e, {BaseExc})

\* the exception that leaves _ensure_driver when the launch raises e
EnsureReraise(e) == IF Caught(e) THEN XiaohongshuError ELSE e

\* what leaves the body of op when the driver fails as pattern p says
Boundary(op, p) ==
    IF p.stage = "none" THEN Returns(TRUE)
    ELSE IF p.stage = "launch" /\ EnsuresFirst(op) THEN Raises(EnsureReraise(p.raw))
    ELSE IF p.stage = "inner" /\ Caught(p.raw) THEN Returns(FALSE)
    ELSE LET e == IF p.stage = "launch" THEN EnsureReraise(p.raw) ELSE p.raw
         IN IF ~Caught(e) THEN Raises(e)
            ELSE IF ReturnsOnFailure(op) THEN Returns(FALSE)
            ELSE Raises(XiaohongshuError)

\* a caller invokes a public operation
CallOperation ==
    /\ rty.pc = "idle"
    /\ \E op \in PublicOperations :
          rty' = StartRty(op, "service", "client",
                          IF Decorated(op) THEN CheckMaxRetries ELSE 0,
                          OperationDelay(op),
                          IF Decorated(op) THEN CheckExceptions ELSE {})
    /\ UNCHANGED <<co, qr, rec, env, requested, config, svc, now, nav, chk, wfl, cm>>

\* one invocation of the body, with the driver failing somewhere or nowhere
OperationInvoke ==
    /\ rty.pc = "call"
    /\ rty.op \in PublicOperations
    /\ \E p \in FailurePatterns :
          rty' = [rty EXCEPT !.pc = "await", !.script = Append(@, p),
                             !.out = Boundary(rty.op, p),
                             !.log = Append(@, Event("call", None, 0))]
    /\ UNCHANGED <<co, qr, rec, env, requested, config, svc, now, nav, chk, wfl, cm>>

\* the outcome goes through the decorator, if any, to the caller
OperationHandle ==
    /\ rty.pc = "await"
    /\ rty.op \in PublicOperations
    /\ rty' = WrapperStep(rty, rty.out, "reset", 0)
    /\ now' = IF WillRetry(rty, rty.out) THEN now + rty.delay * (rty.attempt + 1) ELSE now
    /\ UNCHANGED <<co, qr, rec, env, requested, config, svc, nav, chk, wfl, cm>>

BoundaryNext ==
    \/ CallOperation
    \/ OperationInvoke
    \/ OperationHandle

BoundarySpec == RetryInit /\ [][BoundaryNext]_vars

-----------------------------------------------------------------------------
(* publish_content *)
PublishMaxRetries == 2   \* @retry_on_error(max_retries=2, ...) on publish_content
PublishDelay == 2        \* @retry_on_error(..., delay=2.0, ...)

\* where one invocation of the body ends: at a validation return; at a driver
\* failure before the submit section; with no submit button found; at a
\* failure of the scroll, of the click or of the check after the click; or
\* with one of the three responses after the click
PublishPatterns ==
    [stage : {"invalid_request", "no_button", "published", "rejected", "unclear"},
     raw : {None}]
    \cup [stage : {"before_submit", "scroll", "click", "verify"}, raw : DriverExceptions]

\* submit_button.click() was called
Clicked(p) == p.stage \in {"click", "verify", "published", "rejected", "unclear"}

\* variant: an exception of the click leaves the body as it is
PublishContentClickPropagates(p) ==
    IF p.stage = "published" THEN Returns(TRUE)
    ELSE IF p.stage \in {"invalid_request", "no_button", "rejected", "unclear"}
    THEN Returns(FALSE)
    ELSE IF p.stage = "before_submit"
    THEN (IF Caught(p.raw) THEN Raises(XiaohongshuError) ELSE Raises(p.raw))
    ELSE IF p.stage = "click" THEN Raises(p.raw)
    ELSE (IF Caught(p.raw) THEN Returns(FALSE) ELSE Raises(p.raw))

\* what leaves the body of publish_content once _ensure_driver has returned
PublishContent(p) ==
    IF p.stage = "published" THEN Returns(TRUE)
    ELSE IF p.stage \in {"invalid_request", "no_button", "rejected", "unclear"}
    THEN Returns(FALSE)
    ELSE IF p.stage = "before_submit"
    THEN (IF Caught(p.raw) THEN Raises(XiaohongshuError) ELSE Raises(p.raw))
    ELSE (IF Caught(p.raw) THEN Returns(FALSE) ELSE Raises(p.raw))

\* a caller invokes publish_content(request)
CallPublishContent ==
    /\ CanStart
    /\ rty' = StartRty("publish_content", "service", "client", PublishMaxRetries,
                       PublishDelay, CheckExceptions)
    /\ now' = 0
    /\ nav' = IdleNav /\ chk' = IdleChk /\ wfl' = IdleWfl
    /\ UNCHANGED <<co, qr, rec, env, requested, config, svc, cm>>

\* one invocation of the body: `_ensure_driver()`, then the body up to where
\* pattern p ends it; the log records the click
PublishInvoke ==
    /\ rty.pc = "call"
    /\ rty.op = "publish_content"
    /\ \E o \in LaunchOutcomes, p \in PublishPatterns :
          \E e \in {EnsureDriver(svc, o)} :
          /\ svc' = e.s
          /\ now' = now + e.t
          /\ rty' = [rty EXCEPT
                       !.pc = "await",
                       !.script = Append(@, IF e.exc # None
                                            THEN [stage |-> "launch", raw |-> None] ELSE p),
                       !.out = IF e.exc # None THEN Raises(e.exc) ELSE PublishContent(p),
                       !.log = @ \o <<Event("call", None, 0)>>
                                 \o (IF e.exc = None /\ Clicked(p)
                                     THEN <<Event("click", None, 0)>> ELSE <<>>)]
    /\ UNCHANGED <<co, qr, rec, env, requested, config, nav, chk, wfl, cm>>

\* the outcome of the invocation goes through the decorator
PublishHandle ==
    /\ rty.pc = "await"
    /\ rty.op = "publish_content"
    /\ IF WillRetry(rty, rty.out)
       THEN \E refresh \in RefreshOutcomes :
               \E r \in {ResetBrowserState(svc, refresh)} :
               /\ svc' = r.s
               /\ rty' = WrapperStep(rty, rty.out, "reset", r.slept)
               /\ now' = now + r.slept + rty.delay * (rty.attempt + 1)
       ELSE /\ rty' = WrapperStep(rty, rty.out, "reset", 0)
            /\ UNCHANGED <<svc, now>>
    /\ UNCHANGED <<co, qr, rec, env, requested, config, nav, chk, wfl, cm>>

PublishNext ==
    \/ CallPublishContent
    \/ PublishInvoke
    \/ PublishHandle

PublishSpec == LoginInit /\ [][PublishNext]_vars

-----------------------------------------------------------------------------
(* get_login_recommendations called on any host, any number of times *)
RecommendNext == GetLoginRecommendations

RecommendSpec == Init /\ [][RecommendNext]_vars

-----------------------------------------------------------------------------
(* The event loop runs a started call to its end: every driver call returns
   or raises, and every sleep ends. *)
LoginSteps ==
    \/ RetryCall
    \/ ChkEnsure
    \/ NavAttempt
    \/ ChkProbe
    \/ RetryHandle
    \/ WaitLoop
    \/ WaitReading
    \/ WaitSleep

LoginLiveSpec == LoginSpec /\ WF_vars(LoginSteps)

-----------------------------------------------------------------------------
(* Properties *)

\* C1: at any time at most one launched-and-not-yet-quit driver exists per
\* Service, also when a launch fails after the driver process was started.
AtMostOneLiveDriver == Cardinality(svc.live) <= 1

AllBefore(outcomes, n, P(_)) == \A i \in 1..n : P(outcomes[i])
AttemptFailed(x) == x # "ok"
GetFailed(x) == x = "get_failed"

\* C2: for max_attempts >= 1, safe_navigate returns true at its first
\* successful attempt and attempts nothing after it, and raises only after
\* exactly max_attempts failed attempts; it has no other outcome.
SafeNavigateOutcome ==
    /\ nav.pc = "loop" =>
          /\ Len(nav.outcomes) = nav.attempt
          /\ AllBefore(nav.outcomes, Len(nav.outcomes), AttemptFailed)
    /\ (nav.pc = "done" /\ nav.max_retries >= 1) =>
          \/ /\ nav.result = "True"
             /\ Len(nav.outcomes) \in 1..nav.max_retries
             /\ nav.outcomes[Len(nav.outcomes)] = "ok"
             /\ AllBefore(nav.outcomes, Len(nav.outcomes) - 1, AttemptFailed)
          \/ /\ nav.result = "raise"
             /\ Len(nav.outcomes) = nav.max_retries
             /\ AllBefore(nav.outcomes, Len(nav.outcomes), AttemptFailed)

\* safe_navigate(url, 3) failed once, succeeded at the second attempt and stopped
SafeNavigateSecondAttemptSucceeds ==
    /\ nav.pc = "done" /\ nav.caller = "client" /\ nav.max_retries = 3
    /\ nav.result = "True" /\ nav.outcomes = <<"get_failed", "ok">>

\* C3: after a failed attempt with another attempt left, the driver is quit
\* and the handle is null before the next attempt; starting without a handle
\* and with every page load failing, safe_navigate(url, n) has launched n
\* drivers and attempted n page loads when it raises.
SafeNavigateRebuilds ==
    /\ (nav.pc = "loop" /\ nav.attempt > 0) =>
          /\ svc.driver = NoDriver
          /\ nav.handle \notin svc.live
    /\ (/\ nav.pc = "done" /\ nav.result = "raise" /\ nav.driver0 = NoDriver
        /\ AllBefore(nav.outcomes, Len(nav.outcomes), GetFailed)) =>
          /\ nav.launches = nav.max_retries
          /\ nav.gets = nav.max_retries

\* safe_navigate(url, 3) started without a handle, every page load failed
SafeNavigateAllLoadsFail ==
    /\ nav.pc = "done" /\ nav.result = "raise" /\ nav.driver0 = NoDriver
    /\ nav.max_retries = 3
    /\ nav.outcomes = <<"get_failed", "get_failed", "get_failed">>

\* C4: a check_status whose page loads fail is retried by the wrapper: the
\* failure reaches the caller only after max_retries = 2 retries.
CheckStatusRetriedOnNavigationFailure ==
    (/\ rty.pc = "done" /\ rty.op = "check_login_status" /\ rty.result = "raise"
     /\ nav.caller = "chk" /\ nav.result = "raise"
     /\ nav.outcomes[Len(nav.outcomes)] = "get_failed") =>
        rty.attempt = CheckMaxRetries

Count(log, evs) == Cardinality({i \in 1..Len(log) : log[i].ev \in evs})
ResetEvents == {"reset", "reset_raised"}
Retryable(out, excs) == out.kind = "raise" /\ Bases(out.exc) \cap excs # {}

\* the coroutine raises a retryable exception m times, then returns
FailsThenSucceeds(script, m, excs) ==
    /\ Len(script) = m + 1
    /\ \A i \in 1..m : Retryable(script[i], excs)
    /\ script[m + 1].kind = "return"

\* C5: a wrapped operation on a reset-capable target that raises a retryable
\* exception on its first max_retries invocations and then succeeds: the
\* wrapper returns the success value after max_retries + 1 invocations and
\* max_retries reset-hook calls, one after each failure and before the next
\* invocation.
RetryUntilSuccess ==
    (/\ rty.pc = "done" /\ rty.op = "generic" /\ HasResetHook(rty.target)
     /\ FailsThenSucceeds(rty.script, rty.max_retries, rty.exceptions)) =>
        /\ rty.result = "return"
        /\ rty.value = rty.script[rty.max_retries + 1].value
        /\ Count(rty.log, {"call"}) = rty.max_retries + 1
        /\ Count(rty.log, ResetEvents) = rty.max_retries
        /\ \A i \in 1..Len(rty.log) :
              /\ rty.log[i].ev = "raise" =>
                    i < Len(rty.log) /\ rty.log[i + 1].ev \in ResetEvents
              /\ rty.log[i].ev \in ResetEvents =>
                    /\ rty.log[i - 1].ev = "raise"
                    /\ \E j \in (i + 1)..Len(rty.log) : rty.log[j].ev = "call"

\* two retryable failures, then success, on a target with a reset hook
RetryTwiceThenSuccess ==
    /\ rty.pc = "done" /\ rty.op = "generic" /\ rty.target = "resettable"
    /\ rty.max_retries = 2
    /\ FailsThenSucceeds(rty.script, rty.max_retries, rty.exceptions)

\* C6: an operation that always raises a retryable exception is invoked
\* max_retries + 1 times and the last exception is raised; an exception
\* outside retryable_exceptions propagates at once, without reset-hook call
\* or retry; an exception of the reset hook is swallowed and the retry
\* still takes place.
RetryExhaustion ==
    (rty.pc = "done" /\ rty.op = "generic") =>
        /\ (\A i \in 1..Len(rty.script) : Retryable(rty.script[i], rty.exceptions)) =>
              /\ rty.result = "raise"
              /\ rty.exc = rty.script[rty.max_retries + 1].exc
              /\ Count(rty.log, {"call"}) = rty.max_retries + 1
        /\ \A i \in 1..Len(rty.script) :
              (/\ rty.script[i].kind = "raise"
               /\ ~Retryable(rty.script[i], rty.exceptions)
               /\ \A j \in 1..(i - 1) : Retryable(rty.script[j], rty.exceptions)) =>
                  /\ rty.result = "raise"
                  /\ rty.exc = rty.script[i].exc
                  /\ Count(rty.log, {"call"}) = i
                  /\ Count(rty.log, ResetEvents) =
                        IF HasResetHook(rty.target) THEN i - 1 ELSE 0
                  /\ rty.log[Len(rty.log)] = Event("raise", rty.script[i].exc, 0)
                  /\ rty.log[Len(rty.log) - 1].ev = "call"
        /\ \A k \in 1..Len(rty.log) :
              rty.log[k].ev = "reset_raised" =>
                  /\ k + 2 <= Len(rty.log)
                  /\ rty.log[k + 1].ev = "sleep"
                  /\ rty.log[k + 2].ev = "call"

\* every invocation raised a retryable exception and a reset hook raised too
RetryExhaustedWithFailingHook ==
    /\ rty.pc = "done" /\ rty.op = "generic" /\ rty.max_retries = 2
    /\ \A i \in 1..Len(rty.script) : Retryable(rty.script[i], rty.exceptions)
    /\ \E k \in 1..Len(rty.log) : rty.log[k].ev = "reset_raised"
    /\ rty.result = "raise"

\* C7: the cookie file is at every point absent or a complete bundle, never a
\* truncated or partially written document, also after a failed save.
CookieFileNeverPartial == svc.file.exists => WellFormed(svc.file.content)

NonEmptyNameAndValue(c) ==
    c.name # Absent /\ c.name # "" /\ c.value # Absent /\ c.value # ""
HasNameAndValueKeys(c) == c.name # Absent /\ c.value # Absent

\* C8 as stated: save(cookies) then load() returns the records of the input
\* with a non-empty name and a non-empty value, in order.
SaveLoadNonEmptyRecords ==
    (cm.op = "load" /\ cm.prev = "save" /\ cm.ok /\ cm.readable) =>
        cm.loaded.list = SelectSeq(cm.input, NonEmptyNameAndValue)

\* C8 amended: after a save that succeeded, a load that can read the file
\* returns the records of the input that have a name key and a value key
\* (empty strings included), unchanged and in order, and none when there is
\* no such record.
SaveLoadKeyedRecords ==
    (cm.op = "load" /\ cm.prev = "save" /\ cm.ok /\ cm.readable) =>
        LET kept == SelectSeq(cm.input, HasNameAndValueKeys) IN
        cm.loaded = IF kept = <<>> THEN NoCookies ELSE Cookies(kept)

\* a saved list with an empty-named record and a record without value was loaded
SaveLoadMixedList ==
    /\ cm.op = "load" /\ cm.prev = "save" /\ cm.ok /\ cm.readable
    /\ cm.input = <<Cookie("", "v1", Absent), Cookie("sid", Absent, Absent)>>
    /\ cm.loaded = Cookies(<<Cookie("", "v1", Absent)>>)

\* C9: at every driver launch on a host without GUI the effective headless
\* flag is true, whatever headless flag the caller requested.
HeadlessForcedWithoutGui ==
    ~env.has_gui => \A o \in svc.launch_opts : o.headless

\* a driver was launched on a host without GUI for a caller asking headless = false
LaunchedWithoutGui ==
    ~env.has_gui /\ ~requested.headless /\ svc.launch_opts # {}

\* the readings of wait_for_login so far are consistent with its result
WaitForLoginReadings ==
    /\ wfl.result \in {"none", "True", "False"}
    /\ \A i \in 1..Len(wfl.readings) :
          wfl.readings[i] = "LoggedIn" =>
              i = Len(wfl.readings) /\ wfl.pc = "done" /\ wfl.result = "True"
    /\ wfl.result = "True" =>
          Len(wfl.readings) >= 1 /\ wfl.readings[Len(wfl.readings)] = "LoggedIn"
    /\ wfl.result = "False" =>
          /\ wfl.pc = "done"
          /\ now - wfl.start_time >= wfl.timeout_seconds
    /\ wfl.pc = "done" => wfl.result \in {"True", "False"}

\* a poll that raised is followed by the sleep and the next loop test
PollFailureContinues ==
    (wfl.pc = "poll" /\ wfl'.pc # "poll" /\ rty.result = "raise") =>
        /\ wfl'.pc = "sleep"
        /\ wfl'.readings = Append(wfl.readings, "raised")

\* C10: wait_for_login returns true right after the first poll that reports
\* LoggedIn and polls no more; returns false when no poll reported LoggedIn
\* before the timeout elapsed; treats a poll that raises as LoggedOut and
\* goes on polling; never raises; and terminates.
WaitForLoginContract ==
    /\ []WaitForLoginReadings
    /\ [][PollFailureContinues]_vars
    /\ (wfl.pc \in {"loop", "poll", "sleep"}) ~> (wfl.pc = "done")

\* wait_for_login returned true after a poll that raised
WaitSucceedsAfterFailedPoll ==
    /\ wfl.pc = "done" /\ wfl.result = "True"
    /\ wfl.readings = <<"raised", "LoggedIn">>

\* the readings of a wait_for_login that has returned are all LoggedOut
OnlyLoggedOut ==
    \A i \in 1..Len(wfl.readings) : wfl.readings[i] = "LoggedOut"

\* C11: with timeout = 4 s, against a status source that reports LoggedIn only
\* on its 3rd poll, wait_for_login makes that 3rd poll and returns true at
\* most 6 s after the call: it does not return false while every poll made so
\* far read LoggedOut and fewer than three polls were made, and a return of
\* true on the third poll comes within 6 s.
WaitFourSecondsThirdPoll ==
    (wfl.pc = "done" /\ wfl.timeout_seconds = 4) =>
        /\ (wfl.result = "False" /\ OnlyLoggedOut) => Len(wfl.readings) >= 3
        /\ wfl.readings = <<"LoggedOut", "LoggedOut", "LoggedIn">> =>
              wfl.returned_at - wfl.start_time <= 6

CheckStatusReading ==
    chk.pc = "done" =>
        /\ chk.probe # "none" =>
              nav.caller = "chk" /\ nav.pc = "done" /\ nav.result = "True"
        /\ chk.result = "return" => (chk.is_logged_in <=> chk.probe = "displayed")
        /\ chk.result = "raise" =>
              /\ chk.probe = "none"
              /\ chk.exc = XiaohongshuError
              /\ nav.pc = "idle" \/ (nav.caller = "chk" /\ nav.result = "raise")

\* check_login_status returned not-logged-in after the probe itself failed
CheckStatusProbeFailed ==
    /\ chk.pc = "done" /\ chk.result = "return" /\ ~chk.is_logged_in
    /\ chk.probe = WebDriverException

\* the cookie capture ran exactly in the invocations that read LoggedIn
CaptureOnlyWhenLoggedIn ==
    chk.pc = "done" =>
        (chk.capture # "none" <=> (chk.result = "return" /\ chk.is_logged_in))

\* the effect on the cookie file of the step that ends check_login_status
CaptureWritesFile ==
    (chk.pc # "done" /\ chk'.pc = "done") =>
        /\ chk'.capture \in {"none", "read_failed", "no_cookies"} =>
              svc'.file = svc.file
        /\ chk'.capture = "saved" =>
              /\ svc'.file.exists
              /\ WellFormed(svc'.file.content)
              /\ Parse(svc'.file.content).cookies \in DriverJars \ {<<>>}
        /\ chk'.capture # "none" => (chk'.result = "return" /\ chk'.is_logged_in)

\* C14: every check_login_status that reads LoggedIn runs the cookie capture
\* before it returns: get_cookies() is read and a non-empty jar goes to
\* save_cookies; an invocation that reads LoggedOut or raises leaves the
\* cookie file alone; a capture that fails leaves the LoggedIn result.
CaptureOnLoggedIn ==
    /\ []CaptureOnlyWhenLoggedIn
    /\ [][CaptureWritesFile]_vars

\* check_login_status returned LoggedIn although save_cookies failed
LoggedInWithFailedSave ==
    /\ chk.pc = "done" /\ chk.result = "return" /\ chk.is_logged_in
    /\ chk.capture = "save_failed"

\* C15: cleanup() never raises, also when driver.quit() fails; it calls
\* quit() once on a live driver and not at all without one, leaves the handle
\* null and keeps the persistent profile directory; a cleanup() that follows
\* directly calls no quit(), changes nothing and does not raise.
CleanupIdempotent ==
    \A q \in QuitOutcomes :
        LET r == Cleanup(svc, q) IN
        /\ r.exc = None
        /\ r.quits = (IF svc.driver # NoDriver THEN 1 ELSE 0)
        /\ r.s.driver = NoDriver
        /\ r.s.live = svc.live \ {svc.driver}
        /\ r.s.profile_dir = svc.profile_dir
        /\ \A q2 \in QuitOutcomes :
              Cleanup(r.s, q2) = [s |-> r.s, exc |-> None, quits |-> 0]

\* cleanup() has torn down a launched driver and kept the profile directory
CleanedUpAfterLaunch ==
    /\ svc.launched > 0 /\ svc.live = {} /\ svc.driver = NoDriver
    /\ svc.temp_user_data_dir = None /\ svc.profile_dir

\* C16: a Service that has launched nothing has a null handle; an
\* _ensure_driver on a null handle calls webdriver.Chrome() once (not at all
\* when no browser binary is known) and, when it succeeds, the handle is the
\* one driver it launched; an _ensure_driver on a non-null handle launches
\* nothing, raises nothing and leaves the Service as it is.
EnsureDriverLaunchesOnce ==
    /\ svc.launched = 0 => (svc.driver = NoDriver /\ svc.live = {})
    /\ \A o \in LaunchOutcomes :
          LET e == EnsureDriver(svc, o) IN
          IF svc.driver # NoDriver
          THEN e.chrome = 0 /\ e.exc = None /\ e.s = svc
          ELSE /\ e.chrome = (IF env.chrome_path = None THEN 0 ELSE 1)
               /\ e.s.launched <= svc.launched + 1
               /\ e.exc = None =>
                     /\ e.s.launched = svc.launched + 1
                     /\ e.s.driver = e.s.launched
                     /\ e.s.live = svc.live \cup {e.s.driver}

\* _ensure_driver has launched the first driver of the Service
EnsuredSession ==
    /\ nav.pc = "idle" /\ chk.pc = "idle" /\ rty.pc = "idle" /\ wfl.pc = "idle"
    /\ svc.launched = 1 /\ svc.driver = 1 /\ svc.live = {1}

\* C17: _reset_browser_state with a live handle keeps the handle and quits
\* nothing when the refresh succeeds; when the refresh throws, whatever the
\* failure, the driver is quit and the handle is null; without a handle
\* nothing changes.
ResetTearsDownOnRefreshFailure ==
    \A refresh \in RefreshOutcomes :
        LET r == ResetBrowserState(svc, refresh) IN
        IF svc.driver = NoDriver \/ refresh = "ok"
        THEN r.s = svc
        ELSE r.s.driver = NoDriver /\ svc.driver \notin r.s.live

\* C18: when _safe_navigate raises after its last attempt, the driver has
\* been quit and the handle of the Service is null.
SafeNavigateTearsDownOnFatal ==
    (nav.pc = "done" /\ nav.result = "raise") =>
        /\ svc.driver = NoDriver
        /\ nav.handle \notin svc.live

\* C19: no public operation lets a raw driver exception reach its caller:
\* wherever the driver fails, the operation returns a result or raises
\* XiaohongshuError.
NoRawDriverException ==
    (rty.op \in PublicOperations /\ rty.pc = "done") =>
        /\ rty.result \in {"return", "raise"}
        /\ rty.result = "raise" => rty.exc = XiaohongshuError

\* a content operation ended in XiaohongshuError after a driver call of its
\* body raised TimeoutException
TimeoutBecomesDomainError ==
    /\ rty.op = "list_feeds" /\ rty.pc = "done" /\ rty.result = "raise"
    /\ rty.script = <<[stage |-> "body", raw |-> TimeoutException]>>

\* the row of the decision table for dict i, top-down, where installable(i)
\* is the condition of the third row
TableRow(i, installable) ==
    IF i.has_gui /\ i.chrome_works
    THEN <<"interactive_browser", <<"manual_cookie_import", "qr_code">> >>
    ELSE IF i.chrome_works
    THEN <<"qr_code", <<"manual_cookie_import", "remote_browser">> >>
    ELSE IF installable
    THEN <<"install_chrome", <<"manual_cookie_import", "remote_browser">> >>
    ELSE <<"manual_cookie_import", <<"remote_browser">> >>

\* the last recommendation is the row the table gives, is not empty, and
\* equals the one returned before for the same dict
MatchesTable(installable) ==
    rec.called =>
        /\ <<rec.result.primary_method, rec.result.alternative_methods>>
              = TableRow(rec.env_info, installable)
        /\ rec.result.primary_method # None
        /\ rec.repeated => rec.previous = rec.result

ClearIsIdempotent ==
    /\ cm.op = "clear" => (cm.ok <=> svc.file = NoFile)
    /\ (cm.prev = "clear" /\ cm.ok /\ cm.op = "load") => cm.loaded = NoCookies
    /\ (cm.prev = "clear" /\ cm.ok /\ cm.op = "info") =>
          (~cm.info.exists /\ cm.info.count = 0)
    /\ \A unlinked \in BOOLEAN :
          LET r == ClearCookies(svc.file, unlinked) IN
          /\ ~svc.file.exists => r = [file |-> svc.file, ok |-> TRUE]
          /\ (svc.file.exists /\ unlinked) => r = [file |-> NoFile, ok |-> TRUE]
          /\ ClearCookies(r.file, unlinked) = [file |-> r.file, ok |-> r.ok]

\* clear_cookies was called twice in a row
ClearedTwice ==
    cm.op = "clear" /\ cm.prev = "clear" /\ cm.ok /\ ~svc.file.exists

\* the cookie file holds a complete bundle and get_cookie_info has read it
DescribedBundle ==
    cm.op = "info" /\ cm.readable /\ svc.file.exists /\ WellFormed(svc.file.content)

\* what get_cookie_info reports apart from the count
DescribeReports ==
    cm.op = "info" =>
        /\ cm.info.exists = svc.file.exists
        /\ ~svc.file.exists => cm.info.count = 0
        /\ DescribedBundle =>
              /\ cm.info.domain = Parse(svc.file.content).domain
              /\ cm.info.timestamp = Parse(svc.file.content).timestamp

\* after get_cookie_info the cookie file is the file it was called on
DescribeKeepsFile == cm.op = "info" => svc.file = cm.described

\* C22 as stated: the count of get_cookie_info is the number of valid
\* cookies of the bundle.
DescribeCountsValidCookies ==
    /\ DescribeReports
    /\ DescribedBundle =>
          cm.info.count = Len(Filter(Parse(svc.file.content).cookies))

\* C22: get_cookie_info never raises and never modifies the cookie file; for
\* an absent file it reports exists = false and count = 0; for a persisted
\* bundle it reports exists = true, the stamped domain and timestamp, and a
\* count equal to the number of records in the bundle, valid or not.
DescribeCountsAllRecords ==
    /\ DescribeReports
    /\ DescribeKeepsFile
    /\ DescribedBundle => cm.info.count = Len(Parse(svc.file.content).cookies)

\* get_cookie_info counted a record that load_cookies would skip
DescribedInvalidRecord ==
    /\ DescribedBundle
    /\ cm.info.count = 2
    /\ Len(Filter(Parse(svc.file.content).cookies)) = 1

\* the selectors of the page that hold a displayed QR image
QrImageSelectors(page) == {i \in DOMAIN page : IsQrImage(page[i])}

\* the first of them in the order of the list
FirstQrImage(page) ==
    CHOOSE i \in QrImageSelectors(page) : \A j \in QrImageSelectors(page) : i <= j

\* a selector lookup fails, with an error other than element-not-found, before
\* any displayed QR image is reached
SearchAborted(page) ==
    \E i \in DOMAIN page :
        /\ page[i] = WebDriverException
        /\ \A j \in QrImageSelectors(page) : i < j

\* the session was already authenticated: no search, no image
QrShortCircuit ==
    (qr.pc = "done" /\ qr.status = "logged_in") =>
        /\ qr.response.is_logged_in
        /\ qr.response.img = None
        /\ ~qr.searched

\* C23 as stated: when check_login_status reports the session is not
\* authenticated, the response carries the first displayed QR image of the
\* page in selector order with the caller's budget, and no image with a zero
\* timeout only when the page shows none.
IssueQrReturnsFirstImage ==
    /\ QrShortCircuit
    /\ (qr.pc = "done" /\ qr.status = "logged_out") =>
          IF QrImageSelectors(qr.page) # {}
          THEN /\ qr.response.timeout = Seconds(qr.timeout_seconds)
               /\ ~qr.response.is_logged_in
               /\ qr.response.img =
                      IF qr.page[FirstQrImage(qr.page)] = "data"
                      THEN "<base64 of data url>" ELSE "<base64 of response>"
          ELSE qr.response = NoQrcode(FALSE)

\* C23: get_login_qrcode returns is_logged_in = true with no image and without
\* searching when check_login_status reports the session authenticated;
\* otherwise it tries the selectors in order and answers for the first
\* displayed QR image with is_logged_in = false and the caller's budget, the
\* image being absent when its download fails; when no QR image is found, or
\* a lookup fails with another error than element-not-found before one is
\* found, it returns is_logged_in = false, no image and a zero timeout.
IssueQrReturnsFirstImageIfFetched ==
    /\ QrShortCircuit
    /\ (qr.pc = "done" /\ qr.status = "logged_out") =>
          IF QrImageSelectors(qr.page) # {} /\ ~SearchAborted(qr.page)
          THEN /\ qr.response.timeout = Seconds(qr.timeout_seconds)
               /\ ~qr.response.is_logged_in
               /\ qr.response.img =
                      IF qr.page[FirstQrImage(qr.page)] = "data"
                      THEN "<base64 of data url>"
                      ELSE IF qr.download = "200" THEN "<base64 of response>"
                      ELSE None
          ELSE qr.response = NoQrcode(FALSE)

\* a QR image was found behind a URL and its download was refused
QrFoundButNotDownloaded ==
    /\ qr.pc = "done"
    /\ qr.status = "logged_out"
    /\ qr.page[1] = "hidden"
    /\ qr.page[7] = "url"
    /\ qr.download = "404"
    /\ qr.response = LoginQrcodeResponse(Seconds(QrDefaultTimeout), FALSE, None)

\* C24: the configuration object the caller handed to the constructor still
\* has, after construction and after any sequence of operations, the field
\* values the caller passed in.
CallerConfigUntouched == config = requested

\* a launch on a null handle where the browser starts and the set-up after
\* it succeeds
SessionLaunches(o) ==
    svc.driver = NoDriver /\ env.chrome_path # None /\ o.chrome = "ok" /\ o.post = "ok"

\* C25: whatever the cookie file (absent, unreadable, corrupt, a bundle) and
\* whether or not the pre-load navigation or any add_cookie fails, a launch
\* whose browser starts ends with a live handle and raises nothing.
CookieFailuresNeverAbortLaunch ==
    \A o \in LaunchOutcomes \cup InjectionOutcomes :
        SessionLaunches(o) =>
            LET e == EnsureDriver(svc, o) IN
            /\ e.exc = None
            /\ e.s.driver # NoDriver
            /\ e.s.driver \in e.s.live
            /\ e.s.driver \notin svc.live

\* a session is live although the pre-load navigation for its stored cookies failed
LiveAfterFailedPreload ==
    /\ svc.driver # NoDriver
    /\ svc.driver \in svc.live
    /\ svc.file.exists
    /\ svc.preloaded
    /\ svc.offered = <<>>

\* the valid cookies of the file, as stored
StoredValid(file) ==
    IF file.exists /\ WellFormed(file.content) THEN Filter(Parse(file.content).cookies)
    ELSE <<>>

\* the cookies offered to the driver are the stored ones, in order, a missing
\* domain replaced by the canonical one
OfferedAsStored(offered, stored) ==
    /\ Len(offered) = Len(stored)
    /\ \A i \in 1..Len(stored) :
          /\ offered[i].name = stored[i].name
          /\ offered[i].value = stored[i].value
          /\ offered[i].domain =
                IF stored[i].domain = Absent THEN CookieDomain ELSE stored[i].domain

\* C26 as stated: a launch with a non-empty stored bundle navigates to the
\* origin and then offers every valid stored cookie to the driver once, in
\* stored order, whatever fails; with no stored cookies there is neither
\* navigation nor injection.
StoredCookiesAlwaysOffered ==
    \A o \in InjectionOutcomes :
        SessionLaunches(o) =>
            LET e == EnsureDriver(svc, o)
                stored == IF o.readable THEN StoredValid(svc.file) ELSE <<>>
            IN
            IF stored = <<>>
            THEN ~e.s.preloaded /\ e.s.offered = <<>>
            ELSE e.s.preloaded /\ OfferedAsStored(e.s.offered, stored)

\* C26: a launch with stored cookies navigates to the origin before injecting;
\* when the navigation succeeds every valid stored cookie is offered to the
\* driver once, in stored order, a missing domain replaced by the canonical
\* one, whichever injections fail; when it fails nothing is injected; with no
\* stored cookies there is neither navigation nor injection.
StoredCookiesOfferedInOrder ==
    \A o \in InjectionOutcomes :
        SessionLaunches(o) =>
            LET e == EnsureDriver(svc, o)
                stored == IF o.readable THEN StoredValid(svc.file) ELSE <<>>
            IN
            IF stored = <<>>
            THEN ~e.s.preloaded /\ e.s.offered = <<>>
            ELSE /\ e.s.preloaded
                 /\ o.preload = "raises" => e.s.offered = <<>>
                 /\ o.preload = "ok" => OfferedAsStored(e.s.offered, stored)

\* two stored cookies were offered to the driver, which took neither
OfferedAfterRejection ==
    /\ svc.driver # NoDriver
    /\ svc.preloaded
    /\ Len(svc.offered) = 2
    /\ svc.cookies_added = 0
    /\ svc.offered[2] = Cookie("web_session", "v2", CookieDomain)

\* the sleeps of the wrapper so far, by position in the log
Sleeps == {i \in 1..Len(rty.log) : rty.log[i].ev = "sleep"}

NavigatingHandleSurvives ==
    \A c \in Callers :
        co[c].pc = "settle" =>
            /\ svc.driver = co[c].handle
            /\ co[c].handle \in svc.live

\* as long as a single call runs, its handle survives
AloneHandleSurvives ==
    (\E c \in Callers : co[c].pc = "idle") => NavigatingHandleSurvives

\* C29: within one publish_content call the submit button is clicked at most
\* once, whatever the driver does before, during or after the click: the body
\* is invoked once, and what leaves it is a response or a XiaohongshuError,
\* which the decorator does not retry.
PublishClicksAtMostOnce ==
    rty.op = "publish_content" =>
        /\ Count(rty.log, {"click"}) <= 1
        /\ Count(rty.log, {"call"}) <= 1
        /\ Count(rty.log, {"sleep"}) = 0
        /\ rty.pc = "done" =>
              /\ Count(rty.log, {"call"}) = 1
              /\ rty.result = "raise" => rty.exc = XiaohongshuError

\* the driver failed right after the click and the call ended with a failure
\* response, the button clicked once
PublishFailedAfterClick ==
    /\ rty.op = "publish_content" /\ rty.pc = "done"
    /\ rty.script = <<[stage |-> "verify", raw |-> WebDriverException]>>
    /\ rty.result = "return" /\ ~rty.value
    /\ Count(rty.log, {"click"}) = 1

\* the binary of every launch is the configured one, or the detector's when
\* none is configured
LaunchedBinaryPreference ==
    \A b \in svc.launch_opts :
        b.binary = IF config.browser_path # None THEN config.browser_path
                   ELSE env.chrome_path

\* C30: with a browser path in the configuration, _ensure_driver on a null
\* handle calls webdriver.Chrome() with that binary whether or not the
\* detector found a browser; the detector's path is the binary only when the
\* configuration gives none.
ConfiguredBinaryAlwaysTried ==
    /\ LaunchedBinaryPreference
    /\ \A o \in LaunchOutcomes :
          (svc.driver = NoDriver /\ config.browser_path # None) =>
              LET e == EnsureDriver(svc, o) IN
              /\ e.chrome = 1
              /\ o.chrome = "ok" =>
                    \E b \in e.s.launch_opts : b.binary = config.browser_path

====
